---- MODULE Spec2Model ----
(***************************************************************************)
(* CPU scheduling simulator (main.go): main loads a process list and runs  *)
(* FCFSSchedule, SJFSchedule, SJFPrioritySchedule and RRSchedule on it, in *)
(* that order.  Every loop iteration of a scheduler is one step.           *)
(***************************************************************************)
EXTENDS Integers, Sequences, FiniteSets, TLC

\* ---------------------------------------------------------------- bounds
\* Spec: the lists main is run on have at most MaxProcs processes, arrival
\* times 0..MaxArrival, bursts 1..MaxBurst and priorities 0..MaxPriority.
MaxProcs == 2
MaxArrival == 1
MaxBurst == 3
MaxPriority == 1

\* SpecLong: the same program on longer lists.
LongProcs == 3
LongArrival == 2
LongBurst == 3
LongPriority == 1

\* SpecRR: RRSchedule called on lists read from three-column rows (no
\* priority column, so Priority is 0).
RRMaxProcs == 2
RRMaxArrival == 1
RRMaxBurst == 7

\* SpecRRLong: RRSchedule called on one process with a burst of up to
\* RRLongBurst.
RRLongBurst == 301

\* SpecLoad: main from its first line, on input files of at most
\* LoadMaxRecords records.
LoadMaxRecords == 3

\* var timeQ int64 = 3
timeQ == 3

\* schedule = make([][]string, 100) in SJFSchedule, SJFPrioritySchedule and
\* RRSchedule.
RowCapacity == 100

\* ------------------------------------------------------------ data model
\* type Process struct
Process(id, arrival, burst, priority) ==
    [ProcessID |-> id, ArrivalTime |-> arrival, BurstDuration |-> burst, Priority |-> priority]

\* The zero value of Process: what a Go map lookup or `var` gives before a
\* value is stored.
ZeroProcess == Process(0, 0, 0, 0)

\* type TimeSlice struct
TimeSlice(pid, start_, stop) == [PID |-> pid, Start |-> start_, Stop |-> stop]

\* One row of the schedule table, in column order ID, Priority, Burst, Arrival,
\* Wait, Turnaround, Exit.  fmt.Sprint writes each int64 in decimal, which is
\* one-to-one, so a row keeps the integers.
Row(id, priority, burst, arrival, wait, turnaround, completion) ==
    [ID |-> id, Priority |-> priority, Burst |-> burst, Arrival |-> arrival,
     Wait |-> wait, Turnaround |-> turnaround, Exit |-> completion]

\* A Go map with no entries.
EmptyMap == << >>

\* The process lists loadProcesses can return within given bounds: one record
\* per CSV row, in file order.  Process IDs are distinct (the schedulers key
\* their maps by them and never compare them): the k-th row carries ID k.
IsLoadedList(list, n, arrivals, bursts, priorities) ==
    \E f \in [1..n -> arrivals \X bursts \X priorities] :
        list = [k \in 1..n |-> Process(k, f[k][1], f[k][2], f[k][3])]

Max(S) == CHOOSE x \in S : \A y \in S : y <= x
Min(S) == CHOOSE x \in S : \A y \in S : x <= y

\* m[k] = v on a Go map, and delete(m, k).
MapPut(m, k, v) == [x \in (DOMAIN m) \cup {k} |-> IF x = k THEN v ELSE m[x]]
MapDelete(m, k) == [x \in (DOMAIN m) \ {k} |-> m[x]]

\* `for i := range list { m[int(list[i].ArrivalTime)] = list[i] }`: a later
\* element overwrites an earlier one with the same arrival time.
ByArrivalTime(list) ==
    [a \in {list[k].ArrivalTime : k \in DOMAIN list} |->
        list[Max({k \in DOMAIN list : list[k].ArrivalTime = a})]]

\* `for ... { m[ProcessID] = p }`
ByProcessID(list) ==
    [id \in {list[k].ProcessID : k \in DOMAIN list} |->
        list[Max({k \in DOMAIN list : list[k].ProcessID = id})]]

\* The arrival times of a list, one per element, in list order.
ArrivalTimes(list) == [k \in DOMAIN list |-> list[k].ArrivalTime]

\* sort.Ints: the same integers, each as often as before, ascending.
RECURSIVE SortInts(_)
SortInts(s) ==
    IF s = << >> THEN << >>
    ELSE LET m == Min({s[k] : k \in DOMAIN s})
             at == Min({k \in DOMAIN s : s[k] = m})
             rest == [k \in 1..(Len(s) - 1) |-> IF k < at THEN s[k] ELSE s[k + 1]]
         IN <<m>> \o SortInts(rest)

\* The elements of a set of integers, ascending.
RECURSIVE SortedKeys(_)
SortedKeys(S) == IF S = {} THEN << >> ELSE <<Min(S)>> \o SortedKeys(S \ {Min(S)})

\* Every order in which a range loop may visit the keys of a Go map.
Orders(S) ==
    {o \in [1..Cardinality(S) -> S] : \A i, j \in 1..Cardinality(S) : i # j => o[i] # o[j]}

\* ----------------------------------------------------------------- state
VARIABLES
    args,             \* os.Args
    file,             \* the file os.Args[1] names: whether it opens, its records
    processes,        \* the []Process main passes to every scheduler
    loaded,           \* the list as loadProcesses returned it (never written)
    call,             \* the function main is executing
    pc,               \* position inside that function
    titles,           \* titles written to the output so far (outputTitle)
    stats,            \* what the last outputSchedule call was given
    serviceTime, totalWait, totalTurnaround, lastCompletion, waitingTime,
    schedule,         \* the rows written so far, schedule[1..ct]
    gantt,
    ct,
    finished,         \* history: the IDs given a completion or a drain row, in order
    idx,              \* loop index (i of the range loops), 1-based
    aTimesMap, processesLeft, aTimeNums, currProcess, start,
    groups,           \* burstMap (SJFSchedule) / priorityMap (SJFPrioritySchedule)
    keys,             \* keys (SJFSchedule) / prioritys (SJFPrioritySchedule)
    remProcesses

frame == <<serviceTime, totalWait, totalTurnaround, lastCompletion, waitingTime,
           schedule, gantt, ct, finished>>
preemptive == <<aTimesMap, processesLeft, aTimeNums, currProcess, start, groups, keys>>
environment == <<args, file>>
vars == <<environment, processes, loaded, call, pc, titles, stats, frame, idx, preemptive, remProcesses>>

\* The order of the calls in main.
Calls == <<"FCFSSchedule", "SJFSchedule", "SJFPrioritySchedule", "RRSchedule">>

\* The var block at the top of each scheduler: every local starts at zero.
NewFrame ==
    /\ serviceTime' = 0
    /\ totalWait' = 0
    /\ totalTurnaround' = 0
    /\ lastCompletion' = 0
    /\ waitingTime' = 0
    /\ schedule' = << >>
    /\ gantt' = << >>
    /\ ct' = 0
    /\ finished' = << >>
    /\ idx' = 1
    /\ aTimesMap' = EmptyMap
    /\ processesLeft' = EmptyMap
    /\ aTimeNums' = << >>
    /\ currProcess' = ZeroProcess
    /\ start' = 0
    /\ groups' = EmptyMap
    /\ keys' = << >>
    /\ remProcesses' = EmptyMap

InitFrame ==
    /\ serviceTime = 0
    /\ totalWait = 0
    /\ totalTurnaround = 0
    /\ lastCompletion = 0
    /\ waitingTime = 0
    /\ schedule = << >>
    /\ gantt = << >>
    /\ ct = 0
    /\ finished = << >>
    /\ idx = 1
    /\ aTimesMap = EmptyMap
    /\ processesLeft = EmptyMap
    /\ aTimeNums = << >>
    /\ currProcess = ZeroProcess
    /\ start = 0
    /\ groups = EmptyMap
    /\ keys = << >>
    /\ remProcesses = EmptyMap

NoStats == [count |-> 0, totalWait |-> 0, totalTurnaround |-> 0, lastCompletion |-> 0]

\* ---------------------------------------------------------------- loading
\* A field of a record is a string, here the sequence of its characters.
Digits == <<"0", "1", "2", "3", "4", "5", "6", "7", "8", "9">>

IsDigit(c) == \E d \in DOMAIN Digits : Digits[d] = c

DigitValue(c) == (CHOOSE d \in DOMAIN Digits : Digits[d] = c) - 1

RECURSIVE Decimal(_)
Decimal(s) ==
    IF s = << >> THEN 0
    ELSE 10 * Decimal(SubSeq(s, 1, Len(s) - 1)) + DigitValue(s[Len(s)])

\* strconv.ParseInt(s, 10, 64) on an unsigned string: the value, or an error
\* for the empty string and for a string with a character that is no digit.
ParseInt(s) ==
    IF Len(s) > 0 /\ \A k \in DOMAIN s : IsDigit(s[k])
    THEN [err |-> FALSE, i |-> Decimal(s)]
    ELSE [err |-> TRUE, i |-> 0]

\* The decimal text of a number that is not negative.
RECURSIVE FormatInt(_)
FormatInt(n) ==
    IF n < 10 THEN <<Digits[n + 1]>>
    ELSE FormatInt(n \div 10) \o <<Digits[(n % 10) + 1]>>

\* csv.Reader.ReadAll fails on a record whose number of fields differs from
\* that of the first record.
ReadAllFails(rows) == \E i \in DOMAIN rows : Len(rows[i]) # Len(rows[1])

\* The fields of a record loadProcesses hands to mustStrToInt: the first
\* three, and the fourth of a record of four.
FieldsRead(record) == IF Len(record) = 4 THEN 1..4 ELSE 1..3

\* A loader that never exits on a field.
MustNeverExit(rows) == FALSE

\* mustStrToInt calls os.Exit(1) on the first field that does not parse.
MustExit(rows) ==
    \E i \in DOMAIN rows : \E j \in FieldsRead(rows[i]) : ParseInt(rows[i][j]).err

\* The list loadProcesses builds from records whose fields all parse.
ProcessesOf(rows) ==
    [i \in DOMAIN rows |->
        Process(ParseInt(rows[i][1]).i, ParseInt(rows[i][3]).i, ParseInt(rows[i][2]).i,
                IF Len(rows[i]) = 4 THEN ParseInt(rows[i][4]).i ELSE 0)]

\* A four-column file that loads to the list.
RecordsOf(list) ==
    [i \in DOMAIN list |->
        <<FormatInt(list[i].ProcessID), FormatInt(list[i].BurstDuration),
          FormatInt(list[i].ArrivalTime), FormatInt(list[i].Priority)>>]

\* The command line and the file behind a list main has loaded.
LoadedFrom(list) ==
    /\ args = <<"main", "file">>
    /\ file = [opens |-> TRUE, rows |-> RecordsOf(list)]

\* main after loadProcesses has returned a list without error.
MainLoaded ==
    /\ LoadedFrom(processes)
    /\ loaded = processes
    /\ call = "main"
    /\ pc = "return"
    /\ titles = << >>
    /\ stats = NoStats
    /\ InitFrame

Init ==
    /\ \E n \in 0..MaxProcs :
         IsLoadedList(processes, n, 0..MaxArrival, 1..MaxBurst, 0..MaxPriority)
    /\ MainLoaded

InitLong ==
    /\ \E n \in 0..LongProcs :
         IsLoadedList(processes, n, 0..LongArrival, 1..LongBurst, 0..LongPriority)
    /\ MainLoaded

\* The command lines main is started with: no file argument, one, or one
\* argument too many.
ArgLists == {<<"main">>, <<"main", "file">>, <<"main", "file", "more">>}

\* The texts a field of the input file is drawn from; "1x" is no integer.
FieldTexts == {<<"1">>, <<"1", "x">>}

\* A record of the input file has three fields, or four with a priority.
FieldCounts == {3, 4}

Records == UNION {[1..w -> FieldTexts] : w \in FieldCounts}

\* main at its first line.  Only a command line of two words names a file
\* main goes on to open; a file that does not open has nothing to read.
InitLoad ==
    /\ args \in ArgLists
    /\ \/ file = [opens |-> FALSE, rows |-> << >>]
       \/ /\ Len(args) = 2
          /\ \E n \in 0..LoadMaxRecords : \E rows \in [1..n -> Records] :
                file = [opens |-> TRUE, rows |-> rows]
    /\ processes = << >>
    /\ loaded = << >>
    /\ call = "main"
    /\ pc = "start"
    /\ titles = << >>
    /\ stats = NoStats
    /\ InitFrame

\* openProcessingFile and the log.Fatal of main on its error.
OpenProcessingFile ==
    /\ call = "main"
    /\ pc = "start"
    /\ pc' = IF Len(args) # 2 \/ ~file.opens THEN "fatal" ELSE "load"
    /\ UNCHANGED <<environment, processes, loaded, call, titles, stats, frame, idx,
                   preemptive, remProcesses>>

\* loadProcesses: log.Fatal in main on a reader error, os.Exit(1) inside
\* mustStrToInt on a field that is no integer, the list otherwise.
LoadProcesses ==
    /\ call = "main"
    /\ pc = "load"
    /\ IF ReadAllFails(file.rows)
       THEN pc' = "fatal" /\ UNCHANGED <<processes, loaded>>
       ELSE IF MustExit(file.rows)
       THEN pc' = "exit" /\ UNCHANGED <<processes, loaded>>
       ELSE /\ processes' = ProcessesOf(file.rows)
            /\ loaded' = processes'
            /\ pc' = "return"
    /\ UNCHANGED <<environment, call, titles, stats, frame, idx, preemptive, remProcesses>>

\* main calls the next scheduler on the same slice.
MainCall ==
    /\ pc = "return"
    /\ Len(titles) < Len(Calls)
    /\ call' = Calls[Len(titles) + 1]
    /\ pc' = "entry"
    /\ NewFrame
    /\ UNCHANGED <<processes, loaded, environment, titles, stats>>

\* The aggregates divided by the number of processes handed in, whatever the
\* number of rows.
OutputPerProcess(count) ==
    /\ stats' = [count |-> Len(processes), totalWait |-> totalWait,
                 totalTurnaround |-> totalTurnaround, lastCompletion |-> lastCompletion]
    /\ titles' = Append(titles, call)
    /\ pc' = "return"

\* The tail of every scheduler: the operands of the averages and of the
\* throughput, then outputTitle, outputGantt and outputSchedule.  count is the
\* divisor of both averages and the numerator of the throughput.
Output(count) ==
    /\ stats' = [count |-> count, totalWait |-> totalWait,
                 totalTurnaround |-> totalTurnaround, lastCompletion |-> lastCompletion]
    /\ titles' = Append(titles, call)
    /\ pc' = "return"

\* The locals a loop body reads and writes, as one value.
Locals ==
    [serviceTime |-> serviceTime, totalWait |-> totalWait,
     totalTurnaround |-> totalTurnaround, lastCompletion |-> lastCompletion,
     waitingTime |-> waitingTime, schedule |-> schedule, gantt |-> gantt, ct |-> ct,
     finished |-> finished,
     processesLeft |-> processesLeft, currProcess |-> currProcess, start |-> start]

SetLocals(l) ==
    /\ serviceTime' = l.serviceTime
    /\ totalWait' = l.totalWait
    /\ totalTurnaround' = l.totalTurnaround
    /\ lastCompletion' = l.lastCompletion
    /\ waitingTime' = l.waitingTime
    /\ schedule' = l.schedule
    /\ gantt' = l.gantt
    /\ ct' = l.ct
    /\ finished' = l.finished
    /\ processesLeft' = l.processesLeft
    /\ currProcess' = l.currProcess
    /\ start' = l.start

\* The locals after an iteration that writes rows with schedule[ct] = ...:
\* a row past the end of the buffer is an index out of range, the program
\* panics.
Overruns(l) == l.ct > RowCapacity

WriteRows(l) ==
    IF Overruns(l)
    THEN /\ pc' = "overrun"
         /\ UNCHANGED <<frame, processesLeft, currProcess, start>>
    ELSE /\ pc' = pc
         /\ SetLocals(l)

\* Turnaround taken from the burst instead of the arrival time.
TurnaroundLessBurst(completion, p) == completion - p.BurstDuration

\* Note 2 of the implementation notes: turnaround is the completion time of the
\* span minus the arrival time of its process (SJF, priority and round-robin).
Turnaround(completion, p) == completion - p.ArrivalTime

\* ------------------------------------------------------------------ FCFS
\* if processes[i].ArrivalTime > 0 { waitingTime = serviceTime - ArrivalTime }
FCFSWaitingTime(l, p) ==
    IF p.ArrivalTime > 0 THEN l.serviceTime - p.ArrivalTime ELSE l.waitingTime

\* The body of `for i := range processes` in FCFSSchedule.
FCFSBody(l, p) ==
    LET wt == FCFSWaitingTime(l, p)
        start_ == wt + p.ArrivalTime
        turnaround == p.BurstDuration + wt
        completion == p.BurstDuration + p.ArrivalTime + wt
        stop == l.serviceTime + p.BurstDuration
    IN [l EXCEPT
          !.waitingTime = wt,
          !.totalWait = l.totalWait + wt,
          !.totalTurnaround = l.totalTurnaround + turnaround,
          !.lastCompletion = completion,
          !.schedule = Append(l.schedule,
              Row(p.ProcessID, p.Priority, p.BurstDuration, p.ArrivalTime,
                  wt, turnaround, completion)),
          !.serviceTime = stop,
          !.gantt = Append(l.gantt, TimeSlice(p.ProcessID, start_, stop))]

FCFSStep ==
    /\ call = "FCFSSchedule"
    /\ pc = "entry"
    /\ idx <= Len(processes)
    /\ SetLocals(FCFSBody(Locals, processes[idx]))
    /\ idx' = idx + 1
    /\ UNCHANGED <<processes, loaded, environment, call, pc, titles, stats, aTimesMap,
                   aTimeNums, groups, keys, remProcesses>>

FCFSOutput ==
    /\ call = "FCFSSchedule"
    /\ pc = "entry"
    /\ idx > Len(processes)
    /\ Output(Len(processes))
    /\ UNCHANGED <<processes, loaded, environment, call, frame, idx, preemptive, remProcesses>>

\* ------------------------------------------- SJFSchedule, SJFPrioritySchedule
\* The maps and the sorted arrival times built before the arrival loop, and
\* the first running process.  aTimeNums[0] of an empty list is an index out
\* of range: the program panics.
PreemptiveSetup ==
    /\ pc = "entry"
    /\ IF Len(processes) = 0
       THEN /\ pc' = "panic"
            /\ UNCHANGED <<aTimesMap, processesLeft, aTimeNums, currProcess>>
       ELSE /\ aTimesMap' = ByArrivalTime(processes)
            /\ processesLeft' = ByProcessID(processes)
            /\ aTimeNums' = SortInts(ArrivalTimes(processes))
            /\ currProcess' = aTimesMap'[aTimeNums'[1]]
            /\ pc' = "arrivals"
    /\ UNCHANGED <<processes, loaded, environment, call, titles, stats, frame, idx,
                   start, groups, keys, remProcesses>>

\* The preemption branch at arrival time a: a row and a time slice for the
\* span of the running process, its stored burst reduced, the arrival made
\* the running process.
Preempt(l, a) ==
    LET cur == l.currProcess
        completion == a
        turnaround == Turnaround(completion, cur)
    IN [l EXCEPT
          !.waitingTime = l.start,
          !.totalWait = l.totalWait + l.start,
          !.lastCompletion = completion,
          !.totalTurnaround = l.totalTurnaround + turnaround,
          !.schedule = Append(l.schedule,
              Row(cur.ProcessID, cur.Priority, completion - l.start, cur.ArrivalTime,
                  l.start, turnaround, completion)),
          !.gantt = Append(l.gantt, TimeSlice(cur.ProcessID, l.start, l.serviceTime)),
          !.processesLeft = MapPut(l.processesLeft, cur.ProcessID,
              [cur EXCEPT !.BurstDuration = cur.BurstDuration - a]),
          !.currProcess = aTimesMap[a],
          !.start = a,
          !.ct = l.ct + 1]

\* The completion branch at arrival time a: the running process runs its
\* whole stored burst from start and leaves processesLeft.
Complete(l, a) ==
    LET cur == l.currProcess
        completion == l.start + cur.BurstDuration
        turnaround == Turnaround(completion, cur)
    IN [l EXCEPT
          !.waitingTime = l.start,
          !.totalWait = l.totalWait + l.start,
          !.lastCompletion = completion,
          !.totalTurnaround = l.totalTurnaround + turnaround,
          !.schedule = Append(l.schedule,
              Row(cur.ProcessID, cur.Priority, completion - l.start, cur.ArrivalTime,
                  l.start, turnaround, completion)),
          !.serviceTime = completion,
          !.gantt = Append(l.gantt, TimeSlice(cur.ProcessID, l.start, completion)),
          !.processesLeft = MapDelete(l.processesLeft, cur.ProcessID),
          !.currProcess = aTimesMap[a],
          !.start = a,
          !.ct = l.ct + 1,
          !.finished = Append(l.finished, cur.ProcessID)]

\* serviceTime += int64(aTimeNums[i] - aTimeNums[i-1]) for i != 0
Advanced(l) ==
    IF idx # 1
    THEN [l EXCEPT !.serviceTime = l.serviceTime + (aTimeNums[idx] - aTimeNums[idx - 1])]
    ELSE l

\* SJFSchedule's test for preempting the running process at arrival time a.
SJFPreempts(cur, a) == cur.BurstDuration - a > aTimesMap[a].BurstDuration

\* SJFSchedule's test for finishing the running process at arrival time a.
SJFCompletes(cur, a) == cur.BurstDuration - a <= 0 \/ idx = Len(aTimeNums)

\* SJFPrioritySchedule's tests.
PriorityPreempts(cur, a) == aTimesMap[a].Priority < cur.Priority

PriorityCompletes(cur, a) ==
    cur.ArrivalTime + cur.BurstDuration <= a \/ idx = Len(aTimeNums)

\* The body of `for i, a := range aTimeNums` in SJFSchedule: if / else if.
SJFBody(l, a) ==
    IF idx = 1 THEN l
    ELSE IF SJFPreempts(l.currProcess, a) THEN Preempt(l, a)
    ELSE IF SJFCompletes(l.currProcess, a) THEN Complete(l, a)
    ELSE l

\* The body of the same loop in SJFPrioritySchedule: two ifs in a row, the
\* second one reading what the first one wrote.
PriorityBody(l, a) ==
    IF idx = 1 THEN l
    ELSE LET l1 == IF PriorityPreempts(l.currProcess, a) THEN Preempt(l, a) ELSE l
         IN IF PriorityCompletes(l1.currProcess, a) THEN Complete(l1, a) ELSE l1

SJFSetup ==
    /\ call = "SJFSchedule"
    /\ PreemptiveSetup

SJFArrival ==
    /\ call = "SJFSchedule"
    /\ pc = "arrivals"
    /\ idx <= Len(aTimeNums)
    /\ WriteRows(SJFBody(Advanced(Locals), aTimeNums[idx]))
    /\ idx' = idx + 1
    /\ UNCHANGED <<processes, loaded, environment, call, titles, stats, aTimesMap,
                   aTimeNums, groups, keys, remProcesses>>

SJFPrioritySetup ==
    /\ call = "SJFPrioritySchedule"
    /\ PreemptiveSetup

SJFPriorityArrival ==
    /\ call = "SJFPrioritySchedule"
    /\ pc = "arrivals"
    /\ idx <= Len(aTimeNums)
    /\ WriteRows(PriorityBody(Advanced(Locals), aTimeNums[idx]))
    /\ idx' = idx + 1
    /\ UNCHANGED <<processes, loaded, environment, call, titles, stats, aTimesMap,
                   aTimeNums, groups, keys, remProcesses>>

\* The key the leftover processes are grouped by.
GroupKey(p) == IF call = "SJFSchedule" THEN p.BurstDuration ELSE p.Priority

\* burstMap / priorityMap after `for _, v := range processesLeft` has visited
\* the map in the given order: each key's processes in the order visited.
RECURSIVE Grouped(_, _)
Grouped(order, m) ==
    IF order = << >> THEN m
    ELSE LET v == processesLeft[Head(order)]
             k == GroupKey(v)
         IN Grouped(Tail(order),
                    IF k \in DOMAIN m THEN MapPut(m, k, Append(m[k], v))
                    ELSE MapPut(m, k, <<v>>))

\* After the arrival loop: the leftover processes grouped, the keys sorted.
\* The order in which the range loop visits processesLeft is not specified.
PreemptiveGroup ==
    /\ call \in {"SJFSchedule", "SJFPrioritySchedule"}
    /\ pc = "arrivals"
    /\ idx > Len(aTimeNums)
    /\ \E order \in Orders(DOMAIN processesLeft) :
          groups' = Grouped(order, EmptyMap)
    /\ keys' = SortedKeys(DOMAIN groups')
    /\ idx' = 1
    /\ pc' = "drain"
    /\ UNCHANGED <<processes, loaded, environment, call, titles, stats, frame, aTimesMap,
                   processesLeft, aTimeNums, currProcess, start, remProcesses>>

\* One leftover process run for its whole stored burst.  In a group of one
\* waitingTime is always set to serviceTime; in a larger group only when the
\* process's arrival time is positive.
DrainRow(l, p, single) ==
    LET wt == IF single \/ p.ArrivalTime > 0 THEN l.serviceTime ELSE l.waitingTime
        completion == p.BurstDuration + wt
        turnaround == Turnaround(completion, p)
        stop == l.serviceTime + p.BurstDuration
    IN [l EXCEPT
          !.waitingTime = wt,
          !.totalWait = l.totalWait + wt,
          !.lastCompletion = completion,
          !.totalTurnaround = l.totalTurnaround + turnaround,
          !.schedule = Append(l.schedule,
              Row(p.ProcessID, p.Priority, p.BurstDuration, p.ArrivalTime,
                  wt, turnaround, completion)),
          !.serviceTime = stop,
          !.gantt = Append(l.gantt, TimeSlice(p.ProcessID, wt, stop)),
          !.ct = l.ct + 1,
          !.finished = Append(l.finished, p.ProcessID)]

\* `for _, a := range aTimeNums` over a group's own sorted arrival times, each
\* looked up in the group's own arrival-time map.
RECURSIVE DrainGroup(_, _, _)
DrainGroup(l, byTime, times) ==
    IF times = << >> THEN l
    ELSE DrainGroup(DrainRow(l, byTime[Head(times)], FALSE), byTime, Tail(times))

\* The body of `for _, k := range keys`.
DrainBody(l, group) ==
    IF Len(group) = 1 THEN DrainRow(l, group[1], TRUE)
    ELSE DrainGroup(l, ByArrivalTime(group), SortInts(ArrivalTimes(group)))

PreemptiveDrain ==
    /\ call \in {"SJFSchedule", "SJFPrioritySchedule"}
    /\ pc = "drain"
    /\ idx <= Len(keys)
    /\ WriteRows(DrainBody(Locals, groups[keys[idx]]))
    /\ idx' = idx + 1
    /\ UNCHANGED <<processes, loaded, environment, call, titles, stats, aTimesMap,
                   aTimeNums, groups, keys, remProcesses>>

PreemptiveOutput ==
    /\ call \in {"SJFSchedule", "SJFPrioritySchedule"}
    /\ pc = "drain"
    /\ idx > Len(keys)
    /\ Output(ct)
    /\ UNCHANGED <<processes, loaded, environment, call, frame, idx, preemptive, remProcesses>>

\* ------------------------------------------------------------ Round-robin
\* sort.Slice orders the caller's slice by arrival time, in place.  On a slice
\* of fewer than 12 elements it is an insertion sort, which never moves an
\* element past one with an equal arrival time, so ties keep their order.
SortByArrival(list) ==
    LET before(i, j) ==
            \/ list[i].ArrivalTime < list[j].ArrivalTime
            \/ list[i].ArrivalTime = list[j].ArrivalTime /\ i < j
        rank(i) == 1 + Cardinality({j \in DOMAIN list : before(j, i)})
    IN [k \in DOMAIN list |-> list[CHOOSE i \in DOMAIN list : rank(i) = k]]

RRSetup ==
    /\ call = "RRSchedule"
    /\ pc = "entry"
    /\ remProcesses' = ByProcessID(processes)
    /\ processes' = SortByArrival(processes)
    /\ pc' = "visit"
    /\ UNCHANGED <<loaded, environment, call, titles, stats, frame, idx, preemptive>>

\* A visit that serves the whole remaining burst, whatever the quantum.
QuantumUncapped(process) == process.BurstDuration

\* The slice of at most one quantum a visited process gets.
Quantum(process) ==
    IF process.BurstDuration < timeQ THEN process.BurstDuration ELSE timeQ

\* A visit that removes a process only when it had less than a quantum left,
\* and stores it with a burst of 0 when it had exactly one quantum left.
AfterVisitKeepsSpent(process) ==
    IF process.BurstDuration < timeQ
    THEN MapDelete(remProcesses, process.ProcessID)
    ELSE MapPut(remProcesses, process.ProcessID,
                [process EXCEPT !.BurstDuration = process.BurstDuration - timeQ])

\* remProcesses after a visit: the process removed when it has no burst left,
\* otherwise stored with its burst reduced by the quantum.
AfterVisit(process) ==
    IF process.BurstDuration < timeQ \/ process.BurstDuration - timeQ = 0
    THEN MapDelete(remProcesses, process.ProcessID)
    ELSE MapPut(remProcesses, process.ProcessID,
                [process EXCEPT !.BurstDuration = process.BurstDuration - timeQ])

\* A visit that moves the clock on by a whole quantum even when the process
\* needed less.
VisitRowWholeQuantum(l, process) ==
    LET wt == l.serviceTime
        burst == Quantum(process)
        completion == wt + burst
        turnaround == Turnaround(completion, process)
        stop == l.serviceTime + timeQ
    IN [l EXCEPT
          !.waitingTime = wt,
          !.totalWait = l.totalWait + wt,
          !.lastCompletion = completion,
          !.totalTurnaround = l.totalTurnaround + turnaround,
          !.schedule = Append(l.schedule,
              Row(process.ProcessID, process.Priority, burst, process.ArrivalTime,
                  wt, turnaround, completion)),
          !.ct = l.ct + 1,
          !.serviceTime = stop,
          !.gantt = Append(l.gantt, TimeSlice(process.ProcessID, wt, stop))]

\* The row and the time slice of one visit: the process waits until
\* serviceTime and is served one quantum, or what is left of its burst.
VisitRow(l, process) ==
    LET wt == l.serviceTime
        burst == Quantum(process)
        completion == wt + burst
        turnaround == Turnaround(completion, process)
        stop == l.serviceTime + burst
    IN [l EXCEPT
          !.waitingTime = wt,
          !.totalWait = l.totalWait + wt,
          !.lastCompletion = completion,
          !.totalTurnaround = l.totalTurnaround + turnaround,
          !.schedule = Append(l.schedule,
              Row(process.ProcessID, process.Priority, burst, process.ArrivalTime,
                  wt, turnaround, completion)),
          !.ct = l.ct + 1,
          !.serviceTime = stop,
          !.gantt = Append(l.gantt, TimeSlice(process.ProcessID, wt, stop))]

\* One iteration of `for _, p := range processes` inside
\* `for len(remProcesses) > 0`; the outer test is made when a pass begins.  A
\* process no longer in remProcesses is skipped.
RRVisit ==
    /\ call = "RRSchedule"
    /\ pc = "visit"
    /\ idx > 1 \/ DOMAIN remProcesses # {}
    /\ idx <= Len(processes)
    /\ LET p == processes[idx]
       IN IF p.ProcessID \notin DOMAIN remProcesses
          THEN UNCHANGED <<pc, frame, processesLeft, currProcess, start, remProcesses>>
          ELSE /\ WriteRows(VisitRow(Locals, remProcesses[p.ProcessID]))
               /\ remProcesses' =
                     IF Overruns(VisitRow(Locals, remProcesses[p.ProcessID]))
                     THEN remProcesses
                     ELSE AfterVisit(remProcesses[p.ProcessID])
    /\ idx' = IF idx = Len(processes) THEN 1 ELSE idx + 1
    /\ UNCHANGED <<processes, loaded, environment, call, titles, stats, aTimesMap,
                   aTimeNums, groups, keys>>

RROutput ==
    /\ call = "RRSchedule"
    /\ pc = "visit"
    /\ idx = 1
    /\ DOMAIN remProcesses = {}
    /\ Output(ct)
    /\ UNCHANGED <<processes, loaded, environment, call, frame, idx, preemptive, remProcesses>>

\* RRSchedule called on its own.
InitRR ==
    /\ \E n \in 0..RRMaxProcs :
         IsLoadedList(processes, n, 0..RRMaxArrival, 1..RRMaxBurst, {0})
    /\ LoadedFrom(processes)
    /\ loaded = processes
    /\ call = "RRSchedule"
    /\ pc = "entry"
    /\ titles = << >>
    /\ stats = NoStats
    /\ InitFrame

\* RRSchedule called on one process that arrives at 0.
InitRRLong ==
    /\ \E burst \in 1..RRLongBurst : processes = <<Process(1, 0, burst, 0)>>
    /\ LoadedFrom(processes)
    /\ loaded = processes
    /\ call = "RRSchedule"
    /\ pc = "entry"
    /\ titles = << >>
    /\ stats = NoStats
    /\ InitFrame

\* ------------------------------------------------------------ specifications
RRNext ==
    \/ RRSetup
    \/ RRVisit
    \/ RROutput

Next ==
    \/ MainCall
    \/ FCFSStep
    \/ FCFSOutput
    \/ SJFSetup
    \/ SJFArrival
    \/ SJFPrioritySetup
    \/ SJFPriorityArrival
    \/ PreemptiveGroup
    \/ PreemptiveDrain
    \/ PreemptiveOutput
    \/ RRNext

Spec == Init /\ [][Next]_vars

SpecLong == InitLong /\ [][Next]_vars

LoadNext ==
    \/ OpenProcessingFile
    \/ LoadProcesses
    \/ Next

SpecLoad == InitLoad /\ [][LoadNext]_vars

SpecRR == InitRR /\ [][RRNext]_vars

SpecRRLong == InitRRLong /\ [][RRNext]_vars

\* The program is one thread that runs whenever it has a next statement.
SpecRRFair == SpecRR /\ WF_vars(RRNext)

\* ------------------------------------------------------------------ claims
InArrivalLoop(fn) ==
    /\ call = fn
    /\ pc = "arrivals"
    /\ idx > 1
    /\ idx <= Len(aTimeNums)

\* The step emits, as its first new row, a preemption row of the process that
\* was running, completed at time a.
EmitsPreemptionRow(a) ==
    /\ ct' >= ct + 1
    /\ schedule'[ct + 1].ID = currProcess.ProcessID
    /\ schedule'[ct + 1].Exit = a

\* The burst the running process has left at time a: its burst minus the time
\* it has run since it started.
RemainingBurst(a) == currProcess.BurstDuration - (a - start)

\* C1: in SJFSchedule, at every arrival after the first, an arriving process
\* whose burst is strictly smaller than the running process's remaining burst
\* preempts it: a preemption row completed at the arrival time is emitted and
\* the arriving process becomes the running process.
C1_ShorterArrivalPreempts ==
    [][(/\ InArrivalLoop("SJFSchedule")
        /\ aTimesMap[aTimeNums[idx]].BurstDuration < RemainingBurst(aTimeNums[idx]))
       => (/\ EmitsPreemptionRow(aTimeNums[idx])
           /\ currProcess' = aTimesMap[aTimeNums[idx]])]_vars

\* The processes of the list that arrive at time a.
Arriving(a) == {processes[k] : k \in {k \in DOMAIN processes : processes[k].ArrivalTime = a}}

\* C2: in SJFPrioritySchedule, whenever a process arriving after the first
\* arrival has a strictly smaller priority value than the running process
\* (which still has burst left at that time), the running process is preempted at that arrival time and an arriving process of
\* smaller priority value becomes the running one, also when several processes
\* arrive together.
C2_HigherPriorityArrivalPreempts ==
    [][(/\ InArrivalLoop("SJFPrioritySchedule")
        /\ aTimeNums[idx] > aTimeNums[1]
        /\ RemainingBurst(aTimeNums[idx]) > 0
        /\ \E p \in Arriving(aTimeNums[idx]) : p.Priority < currProcess.Priority)
       => (/\ EmitsPreemptionRow(aTimeNums[idx])
           /\ currProcess' \in Arriving(aTimeNums[idx])
           /\ currProcess'.Priority < currProcess.Priority)]_vars

\* The bursts served by the rows of process id, in the order emitted.
RECURSIVE ServedTo(_, _)
ServedTo(rows, id) ==
    IF rows = << >> THEN << >>
    ELSE IF Head(rows).ID = id THEN <<Head(rows).Burst>> \o ServedTo(Tail(rows), id)
    ELSE ServedTo(Tail(rows), id)

RECURSIVE SumSeq(_)
SumSeq(s) == IF s = << >> THEN 0 ELSE Head(s) + SumSeq(Tail(s))

\* ceil(b/3) slices: 3 each, the last one the remainder when there is one.
QuantumSlices(b) ==
    [k \in 1..((b + 2) \div 3) |-> IF k * 3 <= b THEN 3 ELSE b % 3]

\* C3: round-robin never serves more than 3 in a row of the table, and once
\* it has finished every process of burst b has exactly ceil(b/3) rows, each
\* serving 3 except a last one serving the remainder; the rows of a process
\* add up to its burst.
C3_RRQuantumRows ==
    call = "RRSchedule" =>
       /\ \A k \in 1..Len(schedule) : schedule[k].Burst <= 3
       /\ pc = "return" =>
            \A i \in DOMAIN loaded :
               /\ ServedTo(schedule, loaded[i].ProcessID) = QuantumSlices(loaded[i].BurstDuration)
               /\ SumSeq(ServedTo(schedule, loaded[i].ProcessID)) = loaded[i].BurstDuration

C3_Witness ==
    /\ call = "RRSchedule"
    /\ pc = "return"
    /\ \E i \in DOMAIN loaded :
          /\ loaded[i].BurstDuration = 7
          /\ ServedTo(schedule, loaded[i].ProcessID) = <<3, 3, 1>>

\* The arrival time of the process with the given ID, as loaded.
ArrivalOf(id) ==
    loaded[CHOOSE i \in DOMAIN loaded : loaded[i].ProcessID = id].ArrivalTime

\* C4: in every scheduler, every row written so far has
\* turnaround = completion - arrival time of the row's process.
C4_TurnaroundIsCompletionMinusArrival ==
    \A k \in 1..Len(schedule) :
       /\ schedule[k].Arrival = ArrivalOf(schedule[k].ID)
       /\ schedule[k].Turnaround = schedule[k].Exit - schedule[k].Arrival

\* A priority run that has written a preemption row, a completion row and a
\* drain row.
C4_Witness ==
    /\ call = "SJFPrioritySchedule"
    /\ pc = "return"
    /\ Len(schedule) > Len(loaded)
    /\ DOMAIN groups # {}

\* The bursts of the first n processes of the list, added up.
RECURSIVE BurstsBefore(_)
BurstsBefore(k) == IF k <= 1 THEN 0 ELSE processes[k - 1].BurstDuration + BurstsBefore(k - 1)

\* C5: FCFSSchedule writes one row per process, in input order, with waiting
\* time = the bursts of all earlier processes minus the process's arrival
\* time, turnaround = burst + waiting, completion = arrival + waiting + burst.
C5_FCFSRows ==
    call = "FCFSSchedule" =>
       /\ pc = "return" => Len(schedule) = Len(processes)
       /\ \A k \in 1..Len(schedule) :
             /\ schedule[k].ID = processes[k].ProcessID
             /\ schedule[k].Wait = BurstsBefore(k) - processes[k].ArrivalTime
             /\ schedule[k].Turnaround = processes[k].BurstDuration + schedule[k].Wait
             /\ schedule[k].Exit =
                   processes[k].ArrivalTime + schedule[k].Wait + processes[k].BurstDuration

\* C6: the completion times FCFSSchedule reports never decrease down the table.
C6_FCFSCompletionsNonDecreasing ==
    call = "FCFSSchedule" =>
       \A k \in 1..(Len(schedule) - 1) : schedule[k].Exit <= schedule[k + 1].Exit

\* C7: no scheduler changes the caller's process list.
C7_CallerListUnchanged == processes = loaded

\* The burst the first k rows have served to process id.
ServedBy(k, id) == SumSeq(ServedTo(SubSeq(schedule, 1, k), id))

\* No process that has arrived before time t has burst left after the first
\* k rows.
NothingReady(k, t) ==
    \A i \in DOMAIN loaded :
       loaded[i].ArrivalTime < t =>
          ServedBy(k, loaded[i].ProcessID) >= loaded[i].BurstDuration

\* C8: in every scheduler's timeline the segments are in non-decreasing start
\* order, a segment never starts before the previous one has stopped, and it
\* starts exactly there unless no arrived process had work left in between.
C8_TimelineTiles ==
    \A k \in 1..(Len(gantt) - 1) :
       /\ gantt[k + 1].Start >= gantt[k].Start
       /\ gantt[k + 1].Start >= gantt[k].Stop
       /\ gantt[k + 1].Start = gantt[k].Stop \/ NothingReady(k, gantt[k + 1].Start)

\* C9: the round-robin timeline starts at 0, its segments follow each other
\* without overlap, and every row waits exactly the burst served by all rows
\* before it, which is where its segment starts.
C9_RRWaitIsServiceSoFar ==
    call = "RRSchedule" =>
       /\ Len(gantt) = Len(schedule)
       /\ Len(gantt) > 0 => gantt[1].Start = 0
       /\ \A k \in 1..Len(schedule) :
             /\ gantt[k].PID = schedule[k].ID
             /\ schedule[k].Wait = SumSeq([j \in 1..(k - 1) |-> schedule[j].Burst])
             /\ gantt[k].Start = schedule[k].Wait
             /\ gantt[k].Stop = gantt[k].Start + schedule[k].Burst
       /\ \A k \in 1..(Len(gantt) - 1) : gantt[k].Stop <= gantt[k + 1].Start

C9_Witness ==
    /\ call = "RRSchedule"
    /\ pc = "return"
    /\ loaded = <<Process(1, 0, 5, 0), Process(2, 1, 3, 0)>>
    /\ gantt = <<TimeSlice(1, 0, 3), TimeSlice(2, 3, 6), TimeSlice(1, 6, 8)>>

\* C10: every segment of every timeline stops no earlier than it starts.
C10_StopNotBeforeStart ==
    \A k \in 1..Len(gantt) : gantt[k].Stop >= gantt[k].Start

\* ------------------------------------------------------------------ C11
Column(rows, f(_)) == [k \in 1..Len(rows) |-> f(rows[k])]

WaitOf(row) == row.Wait

TurnaroundOf(row) == row.Turnaround

Returned == call # "main" /\ pc = "return"

\* C11: when a scheduler has returned, the values it handed to the output were
\* computed from the rows it wrote: the divisor of both averages (which is the
\* numerator of the throughput) is the number of rows, the two totals are the
\* sums of the waiting and the turnaround column, and the denominator of the
\* throughput is the completion time of the last row.
C11_AggregatesFromRows ==
    Returned =>
        /\ stats.count = Len(schedule)
        /\ stats.totalWait = SumSeq(Column(schedule, WaitOf))
        /\ stats.totalTurnaround = SumSeq(Column(schedule, TurnaroundOf))
        /\ Len(schedule) > 0 => stats.lastCompletion = schedule[Len(schedule)].Exit

\* A preemptive scheduler has returned with more rows than processes.
C11_Witness ==
    /\ Returned
    /\ call = "SJFSchedule"
    /\ Len(schedule) > Len(processes)
    /\ stats.count = Len(schedule)

\* ------------------------------------------------------------------ C12
\* C12: with an empty process list no scheduler fails before its aggregate
\* computation, and none writes a row: every call main makes comes back with
\* a count of zero.
C12_EmptyListReachesAggregates ==
    loaded = << >> =>
        /\ pc # "panic"
        /\ schedule = << >>
        /\ Returned => stats.count = 0

\* ------------------------------------------------------------------ C13
\* The input main rejects: no file argument or one too many, a file that does
\* not open, or a record with a field that is no integer.
InputRejected ==
    \/ Len(args) # 2
    \/ ~file.opens
    \/ \E i \in DOMAIN file.rows : \E j \in DOMAIN file.rows[i] : ParseInt(file.rows[i][j]).err

\* C13: on a rejected input main never gets past loading: no scheduler is
\* called and no title, timeline or table is written.
C13_RejectedInputRunsNothing ==
    InputRejected =>
        /\ call = "main"
        /\ pc \in {"start", "load", "fatal", "exit"}
        /\ titles = << >>
        /\ schedule = << >>
        /\ gantt = << >>

\* The program has exited on a field of the second record, the first record
\* being all integers.
C13_Witness ==
    /\ pc = "exit"
    /\ Len(file.rows) = 2
    /\ \A j \in DOMAIN file.rows[1] : ~ParseInt(file.rows[1][j]).err
    /\ \E j \in DOMAIN file.rows[2] : ParseInt(file.rows[2][j]).err

\* ------------------------------------------------------------------ C14
TableSchedulers == {"SJFSchedule", "SJFPrioritySchedule", "RRSchedule"}

\* C14: in SJFSchedule, SJFPrioritySchedule and RRSchedule the k-th row and
\* the k-th timeline segment describe the same span: the segment belongs to
\* the row's process, the row's waiting time is the segment's start, its
\* completion time is the segment's stop and its burst served is stop - start.
C14_RowIsItsSegment ==
    call \in TableSchedulers =>
        /\ Len(gantt) = Len(schedule)
        /\ \A k \in 1..Len(schedule) :
              /\ gantt[k].PID = schedule[k].ID
              /\ schedule[k].Wait = gantt[k].Start
              /\ schedule[k].Exit = gantt[k].Stop
              /\ schedule[k].Burst = gantt[k].Stop - gantt[k].Start

\* ------------------------------------------------------------------ C15
PreemptiveSchedulers == {"SJFSchedule", "SJFPrioritySchedule"}

\* The processes left over for the drain phase.
Leftovers == {processesLeft[id] : id \in DOMAIN processesLeft}

\* The rows a step appends to the table.
NewRows == SubSeq(schedule', Len(schedule) + 1, Len(schedule'))

\* C15: the drain phase of SJFSchedule and SJFPrioritySchedule takes the
\* grouping keys (remaining burst, priority) of the leftover processes in
\* ascending order, and under one key writes one row for each leftover process
\* with that key, in ascending order of arrival time, each row serving the
\* whole remaining burst of its process.
C15_DrainOrder ==
    [][(call \in PreemptiveSchedulers /\ pc = "drain" /\ idx <= Len(keys)) =>
          LET members == {p \in Leftovers : GroupKey(p) = keys[idx]}
          IN /\ keys = SortedKeys({GroupKey(p) : p \in Leftovers})
             /\ Len(NewRows) = Cardinality(members)
             /\ {NewRows[k].ID : k \in DOMAIN NewRows} = {p.ProcessID : p \in members}
             /\ \A k \in DOMAIN NewRows :
                   NewRows[k].Burst = processesLeft[NewRows[k].ID].BurstDuration
             /\ \A k \in 1..(Len(NewRows) - 1) : NewRows[k].Arrival <= NewRows[k + 1].Arrival
      ]_vars

\* ------------------------------------------------------------------ C16
\* The rows of the table that belong to process id.
RowsOf(id) == SelectSeq(schedule, LAMBDA row : row.ID = id)

C17_BurstConserved ==
    call \in PreemptiveSchedulers =>
        /\ \A id \in DOMAIN processesLeft : processesLeft[id].BurstDuration >= 0
        /\ \A i \in DOMAIN loaded :
              /\ \A k \in 1..Len(schedule) :
                    schedule[k].ID = loaded[i].ProcessID =>
                       ServedBy(k, loaded[i].ProcessID) <= loaded[i].BurstDuration
              /\ Returned =>
                    ServedBy(Len(schedule), loaded[i].ProcessID) = loaded[i].BurstDuration

\* ------------------------------------------------------------------ C18
\* The number of final rows (completion or drain) process id has been given.
TimesFinished(id) == Cardinality({k \in DOMAIN finished : finished[k] = id})

\* C18: in SJFSchedule and SJFPrioritySchedule no process is finished twice,
\* and when the scheduler has returned every loaded process has exactly one
\* final row, also when processes share an arrival time.
C18_FinishedExactlyOnce ==
    call \in PreemptiveSchedulers =>
        \A i \in DOMAIN loaded :
           /\ TimesFinished(loaded[i].ProcessID) <= 1
           /\ Returned => TimesFinished(loaded[i].ProcessID) = 1

\* ------------------------------------------------------------------ C19
\* C19: in all four schedulers no segment of the timeline starts before its
\* process has arrived, no row has a negative waiting time and no row has a
\* turnaround smaller than the burst it serves.
C19_NotBeforeArrival ==
    /\ \A k \in 1..Len(gantt) : gantt[k].Start >= ArrivalOf(gantt[k].PID)
    /\ \A k \in 1..Len(schedule) :
          /\ schedule[k].Wait >= 0
          /\ schedule[k].Turnaround >= schedule[k].Burst

\* ------------------------------------------------------------------ C20
\* C20: in SJFSchedule, SJFPrioritySchedule and RRSchedule the row counter
\* stays within the row buffer: no row is written past its end, whatever the
\* input list.
C20_RowsWithinCapacity ==
    call \in TableSchedulers =>
        /\ pc # "overrun"
        /\ ct <= RowCapacity
        /\ Len(schedule) <= RowCapacity

\* ------------------------------------------------------------------ C21
\* The locals after `for _, k := range keys` has drained the groups g in the
\* order ks of their keys.
RECURSIVE Drained(_, _, _)
Drained(l, g, ks) ==
    IF ks = << >> THEN l
    ELSE Drained(DrainBody(l, g[Head(ks)]), g, Tail(ks))

\* The rows and the timeline the scheduler ends with when the range loop over
\* processesLeft visits the leftover processes in the given order.
OutputFor(order) ==
    LET g == Grouped(order, EmptyMap)
        l == Drained(Locals, g, SortedKeys(DOMAIN g))
    IN <<l.schedule, l.gantt>>

\* C21: the rows and the timeline of SJFSchedule and SJFPrioritySchedule do
\* not depend on the order in which the map of leftover processes is visited
\* when the drain groups are built: at the end of the arrival loop every order
\* leads to the same rows and the same timeline.
C21_OutputIndependentOfMapOrder ==
    (call \in PreemptiveSchedulers /\ pc = "arrivals" /\ idx > Len(aTimeNums)) =>
        \A o1, o2 \in Orders(DOMAIN processesLeft) : OutputFor(o1) = OutputFor(o2)
====
